---------------------------- MODULE Spec2Model ----------------------------
(***************************************************************************)
(* A model of the crawler of app.py: run_app's crawl branch (browser and   *)
(* session set-up, crawl_site, tear-down) and crawl_site's BFS loop, one   *)
(* action per statement group of the loop body.                            *)
(*                                                                         *)
(* A URL is the record urlparse() makes of it: scheme, netloc, path.  An   *)
(* href is the same record with the parts it does not give left empty.     *)
(* The web is the environment: what a fetch of a URL returns is chosen     *)
(* when the URL is fetched (each URL is fetched at most once, so this is   *)
(* the same as a web fixed in advance).                                    *)
(***************************************************************************)
EXTENDS Integers, Sequences, FiniteSets, TLC

\* ------------------------------------------------------------------ bounds
\* crawl_site is run with max_pages in 0..MaxPagesCap
MaxPagesCap == 4
\* max_depth ranges over 0..MaxDepthCap (the slider of run_app starts at 0)
MaxDepthCap == 2
\* run_app is run with max_pages in 1..RunPagesCap (its slider starts at 1)
RunPagesCap == 3
LivePagesCap == 3
DeclaredDelay == 2

\* ------------------------------------------------------ the modelled web
URL(s, n, p) == [scheme |-> s, netloc |-> n, path |-> p]

NoUrl == URL("", "", "")

\* an href that is a path of the page's own site, and one to another host
Rel(path) == URL("", "", path)
Ext == URL("http", "x", "/a")

\* the tags of a document: headings, paragraphs, list items, anchors
H(n, t) == [tag |-> "h", level |-> n, text |-> t, href |-> NoUrl]
P(t) == [tag |-> "p", level |-> 0, text |-> t, href |-> NoUrl]
LI(t) == [tag |-> "li", level |-> 0, text |-> t, href |-> NoUrl]
A(href) == [tag |-> "a", level |-> 0, text |-> "", href |-> href]

\* the documents the web can serve, each the sequence of its tags in
\* document order
Documents ==
    { <<>>,
      \* a headed page linking to two pages of the site
      <<H(1, "T"), P("S"), A(Rel("/b")), A(Rel("/c"))>>,
      \* the same two links the other way round, an h2 before the h1
      <<A(Rel("/c")), H(2, "U"), A(Rel("/b")), H(1, "T")>>,
      \* the text of the first page again, a link back and a deeper page
      <<H(1, "T"), P("S"), A(Rel("/a")), A(Rel("/d"))>>,
      \* no text, the same link twice
      <<A(Rel("/b")), A(Rel("/b"))>>,
      \* a paragraph of white space, a link to another host
      <<P(" "), A(Rel("/c")), A(Ext)>>,
      \* a list item, a single link
      <<LI("L"), A(Rel("/d"))>>,
      \* the site's host under another scheme
      <<H(1, "T"), A(URL("https", "s", "/b"))>> }

\* what the user can type as the start URL: with and without a scheme
StartUrls == {URL("http", "s", "/a"), URL("", "s", "/a")}

\* the Disallow rules a parsed robots.txt can hold for user agent *
RobotRules == {{}, {"/a"}, {"/b"}}

\* what a parsed robots.txt holds for user agent *: its Disallow rules and
\* the Crawl-delay it declares, if any (the file that disallows /b does)
RobotFiles ==
    {[disallowed |-> rules,
      crawl_delay |-> IF rules = {"/b"} THEN {DeclaredDelay} ELSE {}] :
        rules \in RobotRules}

\* the delay argument of crawl_site, at its default of a second
delay == 1

AuthModes == {"None", "Requests-Form", "Playwright-JS"}

\* --------------------------------------------------------- pure functions
\* sanitize_url: prefix http:// unless the string starts with a scheme
sanitize_url(url) ==
    IF url.scheme \notin {"http", "https"}
    THEN [url EXCEPT !.scheme = "http"]
    ELSE url

\* get_domain: scheme://netloc, the path dropped
get_domain(url) == URL(url.scheme, url.netloc, "")

\* a mutant of is_internal_link: every link counts as internal
is_internal_link_any(base_domain_, target_url) == TRUE

\* is_internal_link: the two netlocs are equal (the scheme is not compared)
is_internal_link(base_domain_, target_url) ==
    base_domain_.netloc = target_url.netloc

\* urljoin(current_url, href): an href with a scheme is absolute; one with
\* only a netloc takes the base's scheme; a path takes scheme and netloc
urljoin(base, href) ==
    IF href.scheme # "" THEN href
    ELSE IF href.netloc # "" THEN [href EXCEPT !.scheme = base.scheme]
    ELSE URL(base.scheme, base.netloc, href.path)

\* markup as a fetch returns it: None, the empty string, or a document
None == [kind |-> "None", body |-> <<>>]
EmptyMarkup == [kind |-> "empty", body |-> <<>>]
Markup(doc) == [kind |-> "markup", body |-> doc]
Markups == {Markup(doc) : doc \in Documents}

\* a mutant of Truthy: only None counts as no markup
TruthyUnlessNone(h) == h.kind # "None"

\* Python's truth value of html: None and "" are false
Truthy(h) == h.kind = "markup"

\* get_text(strip=True): white space alone strips to nothing
strip(t) == IF t = " " THEN "" ELSE t

HeadingType(level) ==
    <<"Heading 1", "Heading 2", "Heading 3",
      "Heading 4", "Heading 5", "Heading 6">>[level]

Element(type, content) == [type |-> type, content |-> content]

\* the element of every tag of the body of the given name (and level)
\* whose stripped text is not empty, in document order
Collect(body, tag, level, type) ==
    LET found == SelectSeq(body, LAMBDA t :
                     t.tag = tag /\ t.level = level /\ strip(t.text) # "")
    IN [i \in 1..Len(found) |-> Element(type, strip(found[i].text))]

\* lines 80-84: the headings of level 1, then of level 2, ... up to 6
RECURSIVE HeadingsFrom(_, _)
HeadingsFrom(body, level) ==
    IF level > 6 THEN <<>>
    ELSE Collect(body, "h", level, HeadingType(level))
         \o HeadingsFrom(body, level + 1)

\* parse_html_static, the elements: headings, then paragraphs, then list
\* items (the modelled documents hold no table and no image)
parse_html_static(h) ==
    HeadingsFrom(h.body, 1)
    \o Collect(h.body, "p", 0, "Paragraph")
    \o Collect(h.body, "li", 0, "List item")

\* "\n".join(texts)
RECURSIVE Join(_)
Join(texts) ==
    IF texts = <<>> THEN ""
    ELSE IF Len(texts) = 1 THEN texts[1]
    ELSE texts[1] \o "\n" \o Join(Tail(texts))

\* hashlib.md5(s).hexdigest(): a digest of every string, never empty
MD5(str) == "md5:" \o str

IsHeading(type) ==
    type \in {HeadingType(level) : level \in 1..6}

\* compute_text_hash: the digest of the heading and paragraph texts
compute_text_hash(elements) ==
    LET texts == SelectSeq(elements, LAMBDA e :
                     IsHeading(e.type) \/ e.type = "Paragraph")
    IN MD5(Join([i \in 1..Len(texts) |-> texts[i].content]))

\* a mutant of detect_duplicates: a group of one URL is kept as well
detect_duplicates_keeps_singletons(m) ==
    LET hashes == {m[url].hash : url \in {u \in DOMAIN m : m[u].hash # ""}}
    IN {{url \in DOMAIN m : m[url].hash = h} : h \in hashes}

\* detect_duplicates: the URLs grouped by a truthy hash, the groups of more
\* than one URL kept (a set of sets here: the order of the lists is left out)
detect_duplicates(m) ==
    LET hashes == {m[url].hash : url \in {u \in DOMAIN m : m[u].hash # ""}}
        urls(h) == {url \in DOMAIN m : m[url].hash = h}
    IN {urls(h) : h \in {g \in hashes : Cardinality(urls(g)) > 1}}

\* a mutant of find_broken_links: every link to a record that is not ok counts
find_broken_links_any_failure(m) ==
    UNION {{<<url, m[url].links[i]>> :
               i \in {j \in 1..Len(m[url].links) :
                         /\ m[url].links[j] \in DOMAIN m
                         /\ m[m[url].links[j]].status # "200"}} :
           url \in {u \in DOMAIN m : m[u].status # "error"}}

\* find_broken_links: the pairs (url, lk) of a record whose status is not
\* 'error' and a link of it that is a key whose status is 'error'
find_broken_links(m) ==
    LET known_urls == DOMAIN m
        broken(url) ==
            {<<url, m[url].links[i]>> :
                i \in {j \in 1..Len(m[url].links) :
                          /\ m[url].links[j] \in known_urls
                          /\ m[m[url].links[j]].status = "error"}}
    IN UNION {broken(url) : url \in {u \in known_urls : m[u].status # "error"}}

\* a RobotFileParser as constructed: nothing read yet
NewRobotFileParser ==
    [disallow_all |-> FALSE, allow_all |-> FALSE,
     last_checked |-> FALSE, disallowed |-> {}, crawl_delay |-> {}]

\* rp.can_fetch('*', url) as urllib.robotparser answers it: no after a
\* 401/403, yes after another 4xx, no while no robots.txt has been read
\* (last_checked unset), else by the Disallow rules read
can_fetch(rp_, url) ==
    IF rp_.disallow_all THEN FALSE
    ELSE IF rp_.allow_all THEN TRUE
    ELSE IF ~rp_.last_checked THEN FALSE
    ELSE url.path \notin rp_.disallowed

\* a mutant of should_crawl: the policy is asked even when compliance is off
should_crawl_always_asks(url, rp_, respect) == can_fetch(rp_, url)

\* should_crawl
should_crawl(url, rp_, respect) ==
    IF ~respect THEN TRUE ELSE can_fetch(rp_, url)

\* ------------------------------------------------------------------ state
VARIABLES
    pc,               \* the statement run_app / crawl_site is at
    exc,              \* the call whose exception ended the run, "" if none
    start_url,        \* the start URL, sanitized once crawl_site has begun
    max_pages, max_depth, respect_robots,
    use_js, auth_mode,\* the sidebar's strategy choices
    creds,            \* username, password and login_url are all non-empty
    p,                \* the Playwright driver: "None", "started", "stopped"
    js_context,       \* the browser context: "None", "open", "closed"
    requests_session, \* the requests.Session: "None", "open", "closed"
    cookies,          \* a login has left its cookies in context or session
    base_domain, rp,
    visited, queue, data_map,
    current_url, depth, html,
    log,              \* history: what the loop has done so far, in order
    dups, broken_links \* what run_app reports of the crawl's result

config == <<max_pages, max_depth, respect_robots, use_js, auth_mode, creds>>
resources == <<p, js_context, requests_session, cookies>>
crawl == <<base_domain, rp, visited, queue, data_map, current_url, depth, html, log>>
report == <<dups, broken_links>>
vars == <<pc, exc, start_url, config, resources, crawl, report>>

EmptyMap == [u \in {} |-> 0]

\* the condition of run_app's line 544, also passed on as use_js_render
NeedsBrowser == use_js \/ auth_mode = "Playwright-JS"

\* what neither entry point has touched yet
Fresh ==
    /\ exc = ""
    /\ cookies = FALSE
    /\ base_domain = NoUrl
    /\ rp = NewRobotFileParser
    /\ visited = {} /\ queue = <<>> /\ data_map = EmptyMap
    /\ current_url = NoUrl /\ depth = 0 /\ html = None
    /\ log = <<>>
    /\ dups = {} /\ broken_links = {}

\* crawl_site called on its own, lines 248-257, with one of the three
\* fetch strategies in its arguments: a browser context (use_js_render),
\* a requests session, or neither
Init ==
    /\ pc = "crawl"
    /\ start_url \in StartUrls
    /\ max_pages \in 0..MaxPagesCap
    /\ max_depth \in 0..MaxDepthCap
    /\ respect_robots \in BOOLEAN
    /\ auth_mode = "None" /\ creds = FALSE
    /\ \E strategy \in {"anonymous", "session", "browser"} :
        /\ use_js = (strategy = "browser")
        /\ p = IF strategy = "browser" THEN "started" ELSE "None"
        /\ js_context = IF strategy = "browser" THEN "open" ELSE "None"
        /\ requests_session = IF strategy = "session" THEN "open" ELSE "None"
    /\ Fresh

\* run_app when the Start Crawl button is pressed, lines 536-541
RunInit ==
    /\ pc = "begin"
    /\ start_url \in StartUrls
    /\ max_pages \in 1..RunPagesCap
    /\ max_depth \in 0..MaxDepthCap
    /\ respect_robots \in BOOLEAN
    /\ use_js \in BOOLEAN
    /\ auth_mode \in AuthModes
    /\ creds \in BOOLEAN
    /\ p = "None" /\ js_context = "None" /\ requests_session = "None"
    /\ Fresh

\* ---------------------------------------------------------------- run_app
\* create_playwright_browser, lines 544-546: each of its three calls can raise
CreatePlaywrightBrowser ==
    /\ pc = "begin" /\ NeedsBrowser
    /\ \E out \in {"ok", "start_raises", "launch_raises", "new_context_raises"} :
        /\ p' = IF out = "start_raises" THEN "None" ELSE "started"
        /\ js_context' = IF out = "ok" THEN "open" ELSE "None"
        /\ pc' = IF out # "ok" THEN "raised"
                 ELSE IF auth_mode = "Playwright-JS" /\ creds THEN "login_js"
                 ELSE "session"
        /\ exc' = IF out = "ok" THEN "" ELSE "create_playwright_browser"
    /\ UNCHANGED report
    /\ UNCHANGED <<start_url, config, requests_session, cookies, crawl>>

NoBrowser ==
    /\ pc = "begin" /\ ~NeedsBrowser
    /\ pc' = "session"
    /\ UNCHANGED report
    /\ UNCHANGED <<exc, start_url, config, resources, crawl>>

\* login_playwright_js: new_page, goto and close are outside its try block
LoginPlaywrightJs ==
    /\ pc = "login_js"
    /\ \E out \in {"ok", "new_page_raises", "goto_raises", "fill_raises", "close_raises"} :
        /\ cookies' = (out \in {"ok", "close_raises"})
        /\ pc' = IF out \in {"ok", "fill_raises"} THEN "session" ELSE "raised"
        /\ exc' = IF out \in {"ok", "fill_raises"} THEN ""
                  ELSE "login_playwright_js"
    /\ UNCHANGED report
    /\ UNCHANGED <<start_url, config, p, js_context, requests_session, crawl>>

\* the condition of run_app's line 561
WantsSession == auth_mode = "Requests-Form" /\ creds

\* create_requests_session: neither session.get nor session.post is guarded;
\* the Session of line 204 exists, open, whichever way the function ends
CreateRequestsSession ==
    /\ pc = "session" /\ WantsSession
    /\ \E out \in {"ok", "get_raises", "get_not_ok", "post_raises"} :
        /\ requests_session' = "open"
        /\ cookies' = (out = "ok")
        /\ pc' = IF out \in {"ok", "get_not_ok"} THEN "crawl" ELSE "raised"
        /\ exc' = IF out \in {"ok", "get_not_ok"} THEN ""
                  ELSE "create_requests_session"
    /\ UNCHANGED report
    /\ UNCHANGED <<start_url, config, p, js_context, crawl>>

NoSession ==
    /\ pc = "session" /\ ~WantsSession
    /\ pc' = "crawl"
    /\ UNCHANGED report
    /\ UNCHANGED <<exc, start_url, config, resources, crawl>>

\* ------------------------------------------------------------- crawl_site
\* what rp.read() leaves in the parser.  An exception out of read() (no
\* connection, undecodable body) is swallowed by lines 285-286 and leaves the
\* parser as constructed, as does a 5xx answer; 401/403 set disallow_all,
\* other 4xx set allow_all; a body that parses sets last_checked and the rules
RobotsRead(out, file) ==
    CASE out = "http_403" -> [NewRobotFileParser EXCEPT !.disallow_all = TRUE]
      [] out = "http_404" -> [NewRobotFileParser EXCEPT !.allow_all = TRUE]
      [] out = "parsed"   -> [NewRobotFileParser EXCEPT
                                 !.last_checked = TRUE,
                                 !.disallowed = file.disallowed,
                                 !.crawl_delay = file.crawl_delay]
      [] OTHER            -> NewRobotFileParser

ReadOutcomes == {"url_error", "http_403", "http_404", "http_500", "undecodable", "parsed"}

\* the history's entry of a queue.append((url, d))
Appended(url, d) == [ev |-> "enqueue", url |-> url, depth |-> d]

\* lines 274-286: sanitize, the three collections, the robots parser
CrawlInit ==
    /\ pc = "crawl"
    /\ start_url' = sanitize_url(start_url)
    /\ base_domain' = get_domain(start_url')
    /\ visited' = {}
    /\ queue' = << <<start_url', 0>> >>
    /\ log' = <<Appended(start_url', 0)>>
    /\ data_map' = EmptyMap
    /\ \E out \in ReadOutcomes, file \in RobotFiles :
           rp' = RobotsRead(out, file)
    /\ pc' = "loop"
    /\ UNCHANGED report
    /\ UNCHANGED <<exc, config, resources, current_url, depth, html>>

\* an entry of the history: skip_visited, over_depth, fetch, write
Event(ev, url) == [ev |-> ev, url |-> url]

\* the history's entry of a time.sleep(secs) after the work on url
Slept(url, secs) == [ev |-> "sleep", url |-> url, secs |-> secs]

\* a mutant of LoopCond: the page cap is not tested
LoopCondNoCap == queue # <<>>

\* a mutant of LoopCond: the loop gives up one page before the cap
LoopCondStopsEarly == queue # <<>> /\ Cardinality(visited) + 1 < max_pages

\* the while condition of line 288
LoopCond == queue # <<>> /\ Cardinality(visited) < max_pages

\* a mutant of AlreadyVisited: the visited test is lost
AlreadyVisitedNever == FALSE

\* the test of line 290 on the entry at the head of the queue
AlreadyVisited == Head(queue)[1] \in visited

\* lines 289-291: an entry whose URL is already visited is dropped
SkipVisited ==
    /\ pc = "loop" /\ LoopCond
    /\ AlreadyVisited
    /\ current_url' = Head(queue)[1]
    /\ depth' = Head(queue)[2]
    /\ queue' = Tail(queue)
    /\ log' = Append(log, Event("skip_visited", Head(queue)[1]))
    /\ UNCHANGED report
    /\ UNCHANGED <<pc, exc, start_url, config, resources, base_domain, rp, visited,
                   data_map, html>>

\* lines 289-292: the entry is popped and its URL marked visited
MarkVisited ==
    /\ pc = "loop" /\ LoopCond
    /\ ~AlreadyVisited
    /\ current_url' = Head(queue)[1]
    /\ depth' = Head(queue)[2]
    /\ queue' = Tail(queue)
    /\ visited' = visited \cup {Head(queue)[1]}
    /\ pc' = "check"
    /\ UNCHANGED report
    /\ UNCHANGED <<exc, start_url, config, resources, base_domain, rp, data_map, html, log>>

\* the test of line 294
OverDepth == depth > max_depth

\* lines 294-295: an over-depth entry leaves no record
SkipOverDepth ==
    /\ pc = "check" /\ OverDepth
    /\ log' = Append(log, Event("over_depth", current_url))
    /\ pc' = "loop"
    /\ UNCHANGED report
    /\ UNCHANGED <<exc, start_url, config, resources, base_domain, rp, visited, queue,
                   data_map, current_url, depth, html>>

\* the record of lines 298-306 and 334-342: nothing but status and depth
\* (title and meta_description, which no analysis reads, are left out)
BlankRecord(status, d) ==
    [elements |-> <<>>, links |-> <<>>, status |-> status, hash |-> "",
     depth |-> d]

\* data_map[url] = rec
Store(m, url, rec) == (url :> rec) @@ m

\* lines 297-307: the policy denies the URL; no fetch, no sleep
RobotsDisallowed ==
    /\ pc = "check" /\ ~OverDepth
    /\ ~should_crawl(current_url, rp, respect_robots)
    /\ data_map' = Store(data_map, current_url,
                         BlankRecord("disallowed_by_robots", depth))
    /\ log' = Append(log, Event("write", current_url))
    /\ pc' = "loop"
    /\ UNCHANGED report
    /\ UNCHANGED <<exc, start_url, config, resources, base_domain, rp, visited, queue,
                   current_url, depth, html>>

\* the guard all three fetch branches share
ReachesFetch ==
    pc = "check" /\ ~OverDepth /\ should_crawl(current_url, rp, respect_robots)

\* the test of line 312
UsesBrowser == NeedsBrowser /\ js_context # "None"

\* lines 312-318: new_page and page.close are called outside any try block;
\* fetch_page_playwright itself returns None on any error
FetchPlaywright ==
    /\ ReachesFetch /\ UsesBrowser
    /\ \E out \in {"new_page_raises", "close_raises", "returns"} :
        \E h \in {None} \cup Markups :
            /\ out = "new_page_raises" => h = None
            /\ html' = h
            /\ log' = IF out = "new_page_raises" THEN log
                      ELSE Append(log, Event("fetch", current_url))
            /\ pc' = IF out = "returns" THEN "fetched" ELSE "raised"
            /\ exc' = CASE out = "new_page_raises" -> "js_context.new_page"
                        [] out = "close_raises" -> "page.close"
                        [] OTHER -> ""
    /\ UNCHANGED report
    /\ UNCHANGED <<start_url, config, resources, base_domain, rp, visited, queue,
                   data_map, current_url, depth>>

\* lines 321-322 and fetch_page_requests_auth: any exception gives None
FetchSession ==
    /\ ReachesFetch /\ ~UsesBrowser /\ requests_session # "None"
    /\ \E h \in {None, EmptyMarkup} \cup Markups : html' = h
    /\ log' = Append(log, Event("fetch", current_url))
    /\ pc' = "fetched"
    /\ UNCHANGED report
    /\ UNCHANGED <<exc, start_url, config, resources, base_domain, rp, visited, queue,
                   data_map, current_url, depth>>

\* lines 324-329: any exception gives None
FetchAnonymous ==
    /\ ReachesFetch /\ ~UsesBrowser /\ requests_session = "None"
    /\ \E h \in {None, EmptyMarkup} \cup Markups : html' = h
    /\ log' = Append(log, Event("fetch", current_url))
    /\ pc' = "fetched"
    /\ UNCHANGED report
    /\ UNCHANGED <<exc, start_url, config, resources, base_domain, rp, visited, queue,
                   data_map, current_url, depth>>

\* a mutant of RecordError: a failed fetch leaves no record
RecordErrorNoRecord ==
    /\ pc = "fetched" /\ ~Truthy(html)
    /\ pc' = "sleep"
    /\ UNCHANGED report
    /\ UNCHANGED <<exc, start_url, config, resources, crawl>>

\* a mutant of RecordError: the time.sleep of line 343 is left out
RecordErrorNoSleep ==
    /\ pc = "fetched" /\ ~Truthy(html)
    /\ data_map' = Store(data_map, current_url, BlankRecord("error", depth))
    /\ log' = Append(log, Event("write", current_url))
    /\ pc' = "loop"
    /\ UNCHANGED report
    /\ UNCHANGED <<exc, start_url, config, resources, base_domain, rp,
                   visited, queue, current_url, depth, html>>

\* lines 333-344: no markup, an error record
RecordError ==
    /\ pc = "fetched" /\ ~Truthy(html)
    /\ data_map' = Store(data_map, current_url, BlankRecord("error", depth))
    /\ log' = Append(log, Event("write", current_url))
    /\ pc' = "sleep"
    /\ UNCHANGED report
    /\ UNCHANGED <<exc, start_url, config, resources, base_domain, rp, visited, queue,
                   current_url, depth, html>>

\* lines 350-353: every href resolved against the page's own URL
FoundLinks(url, h) ==
    LET anchors == SelectSeq(h.body, LAMBDA t : t.tag = "a")
    IN [i \in 1..Len(anchors) |-> urljoin(url, anchors[i].href)]

\* a mutant of Enqueue: the links are pushed at the front of the queue
EnqueueAtFront(q, lks, d, seen) ==
    LET keep == SelectSeq(lks, LAMBDA lk :
                    is_internal_link(base_domain, lk) /\ lk \notin seen)
    IN [i \in 1..Len(keep) |-> <<keep[i], d + 1>>] \o q

\* a mutant of Enqueue: a child is given its parent's depth
EnqueueSameDepth(q, lks, d, seen) ==
    LET keep == SelectSeq(lks, LAMBDA lk :
                    is_internal_link(base_domain, lk) /\ lk \notin seen)
    IN q \o [i \in 1..Len(keep) |-> <<keep[i], d>>]

\* lines 366-368: the internal links not yet visited, at depth + 1
Enqueue(q, lks, d, seen) ==
    LET keep == SelectSeq(lks, LAMBDA lk :
                    is_internal_link(base_domain, lk) /\ lk \notin seen)
    IN q \o [i \in 1..Len(keep) |-> <<keep[i], d + 1>>]

\* lines 346-368: parse, store the record, enqueue the links
RecordOk ==
    /\ pc = "fetched" /\ Truthy(html)
    /\ LET elements == parse_html_static(html)
           found_links == FoundLinks(current_url, html)
       IN /\ data_map' = Store(data_map, current_url,
                               [elements |-> elements, links |-> found_links,
                                status |-> "200",
                                hash |-> compute_text_hash(elements),
                                depth |-> depth])
          /\ queue' = Enqueue(queue, found_links, depth, visited)
          /\ LET keep == SelectSeq(found_links, LAMBDA lk :
                             is_internal_link(base_domain, lk) /\ lk \notin visited)
             IN log' = Append(log, Event("write", current_url)) \o
                           [i \in 1..Len(keep) |-> Appended(keep[i], depth + 1)]
    /\ pc' = "sleep"
    /\ UNCHANGED report
    /\ UNCHANGED <<exc, start_url, config, resources, base_domain, rp, visited,
                   current_url, depth, html>>

\* time.sleep(delay), lines 343 and 370
Sleep ==
    /\ pc = "sleep"
    /\ log' = Append(log, Slept(current_url, delay))
    /\ pc' = "loop"
    /\ UNCHANGED report
    /\ UNCHANGED <<exc, start_url, config, resources, base_domain, rp, visited, queue,
                   data_map, current_url, depth, html>>

\* line 372: the loop condition fails and data_map is returned
Return ==
    /\ pc = "loop" /\ ~LoopCond
    /\ pc' = "returned"
    /\ UNCHANGED report
    /\ UNCHANGED <<exc, start_url, config, resources, crawl>>

\* run_app lines 579-584: close the context, stop the driver, keep the result
Teardown ==
    /\ pc = "returned"
    /\ \E out \in {"ok", "close_raises"} :
        /\ out = "close_raises" => js_context # "None"
        /\ js_context' = IF js_context # "None" /\ out = "ok" THEN "closed"
                         ELSE js_context
        /\ p' = IF p # "None" /\ out = "ok" THEN "stopped" ELSE p
        /\ pc' = IF out = "ok" THEN "done" ELSE "raised"
        /\ exc' = IF out = "ok" THEN "" ELSE "js_context.close"
    /\ UNCHANGED report
    /\ UNCHANGED <<start_url, config, requests_session, cookies, crawl>>

\* crawl_site
Next ==
    \/ CrawlInit
    \/ SkipVisited \/ MarkVisited \/ SkipOverDepth \/ RobotsDisallowed
    \/ FetchPlaywright \/ FetchSession \/ FetchAnonymous
    \/ RecordError \/ RecordOk \/ Sleep
    \/ Return

Spec == Init /\ [][Next]_vars

\* crawl_site as a sequential program: while a statement of the loop can run,
\* one runs (every fetch and every time.sleep returns or raises)
FairInit == Init /\ max_pages <= LivePagesCap

FairSpec == FairInit /\ [][Next]_vars /\ WF_vars(Next)

\* run_app lines 588-609: when the crawl has left records, the duplicate
\* clusters and the broken links of data_map are computed and shown
Report ==
    /\ pc = "returned" /\ data_map # EmptyMap
    /\ dups' = detect_duplicates(data_map)
    /\ broken_links' = find_broken_links(data_map)
    /\ pc' = "reported"
    /\ UNCHANGED <<exc, start_url, config, resources, crawl>>

\* the crawl followed by the report on what it returned
ReportNext == Next \/ Report

ReportSpec == Init /\ [][ReportNext]_vars

\* the crawl branch of run_app, crawl_site within it
RunNext ==
    \/ CreatePlaywrightBrowser \/ NoBrowser \/ LoginPlaywrightJs
    \/ CreateRequestsSession \/ NoSession
    \/ Next
    \/ Teardown

RunSpec == RunInit /\ [][RunNext]_vars

\* ----------------------------------------------------------------- claims
Keys == DOMAIN data_map

\* the URLs of the history's events of one kind
Logged(ev) == {log[i].url : i \in {j \in 1..Len(log) : log[j].ev = ev}}

\* how often the history holds an event
Times(ev, url) == Cardinality({i \in 1..Len(log) : log[i] = Event(ev, url)})

\* the URLs of the site used in the witnesses
S(path) == URL("http", "s", path)

Links(url) == {data_map[url].links[i] : i \in 1..Len(data_map[url].links)}

\* C1: in every state of crawl_site the record set holds at most max_pages
\* records and every record's depth is at most max_depth.
C1_RecordsWithinCaps ==
    /\ Cardinality(Keys) <= max_pages
    /\ \A u \in Keys : data_map[u].depth <= max_depth

\* the page cap ends a run whose frontier is not empty, with a record at
\* the depth limit
C1_Witness ==
    /\ pc = "returned" /\ queue # <<>>
    /\ max_pages >= 3 /\ Cardinality(Keys) = max_pages
    /\ max_depth >= 1 /\ \E u \in Keys : data_map[u].depth = max_depth

\* C2 as stated: when crawl_site returns, the keys of data_map are the
\* visited set.
C2_KeysEqualVisited ==
    pc = "returned" => Keys = visited

\* C2 amended: when crawl_site returns, the keys of data_map are the visited
\* URLs that were not dequeued at a depth above max_depth; those are visited
\* and have no record.
C2_KeysAreVisitedWithinDepth ==
    pc = "returned" => Keys = visited \ Logged("over_depth")

\* a run returns after it has dequeued an over-depth entry
C2_Witness ==
    /\ pc = "returned"
    /\ Logged("over_depth") # {}
    /\ Cardinality(Keys) >= 2

\* C3: a URL is in visited before its robots check and its fetch, is
\* fetched at most once and written at most once, and no step changes or
\* removes a record already written.
C3_AtMostOnce ==
    /\ [](/\ pc \in {"check", "fetched", "sleep"} => current_url \in visited
          /\ Logged("fetch") \cup Logged("write") \subseteq visited
          /\ \A u \in visited :
                Times("fetch", u) <= 1 /\ Times("write", u) <= 1)
    /\ [][\A u \in Keys : u \in DOMAIN data_map' /\ data_map'[u] = data_map[u]]_vars

\* a duplicate frontier entry of a recorded URL has been dequeued
C3_Witness ==
    /\ pc = "returned"
    /\ Logged("skip_visited") \cap Keys # {}
    /\ Logged("skip_visited") \cap Logged("fetch") # {}

\* the URL has the network location of the seed
SameSite(url) == url.netloc = start_url.netloc

\* the URLs within k hops of the seed along the internal links of the
\* records with status 200
RECURSIVE Within(_)
Within(k) ==
    IF k = 0 THEN {start_url}
    ELSE LET near == Within(k - 1)
         IN near \cup
            {lk \in UNION {Links(v) : v \in {w \in near \cap Keys :
                                              data_map[w].status = "200"}} :
                 SameSite(lk)}

\* C4: the depth of every record is the smallest number of hops from the
\* seed along internal links found on pages recorded with status 200.
C4_DepthIsShortestHops ==
    \A u \in Keys :
        LET d == data_map[u].depth
        IN u \in Within(d) /\ (d > 0 => u \notin Within(d - 1))

\* the example: a links to b and c, b links to a and d, c fails to fetch
C4_Witness ==
    /\ pc = "returned" /\ max_depth = 2
    /\ Keys = {S("/a"), S("/b"), S("/c"), S("/d")}
    /\ data_map[S("/a")].links = <<S("/b"), S("/c")>>
    /\ data_map[S("/b")].links = <<S("/a"), S("/d")>>
    /\ data_map[S("/c")].status = "error"
    /\ data_map[S("/a")].depth = 0 /\ data_map[S("/b")].depth = 1
    /\ data_map[S("/c")].depth = 1 /\ data_map[S("/d")].depth = 2

\* C5: every frontier entry, every visited URL, every record key and every
\* fetched URL is on the seed's network location; a link to another host is
\* kept in a record's links and goes no further.
C5_OnlyInternalCrawled ==
    /\ \A i \in 1..Len(queue) : SameSite(queue[i][1])
    /\ \A u \in visited \cup Keys \cup Logged("fetch") : SameSite(u)

\* a record holds a link to another host
C5_Witness ==
    /\ pc = "returned"
    /\ \E u \in Keys : Ext \in Links(u)
    /\ Cardinality(Keys) >= 2

\* C6 as stated: with robots compliance on and a robots.txt that could not
\* be fetched or parsed (the parser is left as constructed), no record has
\* status disallowed_by_robots.
C6_UnreadRobotsIsPermissive ==
    (pc # "crawl" /\ respect_robots /\ rp = NewRobotFileParser)
        => \A u \in Keys : data_map[u].status # "disallowed_by_robots"

\* the policy denies the URL (compliance is on and can_fetch says no)
Denied(url) == ~should_crawl(url, rp, respect_robots)

\* C7: a URL the policy denies, once it has reached the policy check (it
\* was dequeued, not yet visited and within max_depth), has the blank record
\* of status disallowed_by_robots, is never fetched, and its step adds
\* nothing to the frontier; no other URL has that status, and with
\* compliance off no record has it.
C7_DisallowedNotExpanded ==
    /\ [](pc # "crawl" =>
          /\ ~respect_robots =>
                \A u \in Keys : data_map[u].status # "disallowed_by_robots"
          /\ \A u \in Keys :
                IF Denied(u)
                THEN data_map[u] = BlankRecord("disallowed_by_robots",
                                               data_map[u].depth)
                ELSE data_map[u].status # "disallowed_by_robots"
          /\ \A u \in Logged("fetch") : ~Denied(u)
          /\ pc \in {"loop", "returned"} =>
                \A u \in visited \ Logged("over_depth") :
                    Denied(u) => u \in Keys)
    /\ [][(pc = "check" /\ ~OverDepth /\ Denied(current_url))
              => queue' = queue /\ html' = html]_vars

\* a link found on a crawled page is denied by the policy and recorded
C7_Witness ==
    /\ pc = "returned" /\ respect_robots
    /\ \E u \in Keys : data_map[u].status = "disallowed_by_robots"
                       /\ data_map[u].depth = 1
    /\ \E u \in Keys : data_map[u].status = "200"

\* C8 as stated: no failure of a page fetch, the opening and closing of the
\* browser page included, raises out of crawl_site.
C8_FetchFailuresNeverPropagate ==
    exc \notin {"js_context.new_page", "page.close"}

\* C9 as stated: no failure of a login step raises out of run_app; the crawl
\* still runs.
C9_LoginFailuresDegrade ==
    exc \notin {"login_playwright_js", "create_requests_session"}

\* C10 as stated: when the run has ended, by return or by exception, the
\* browser engine is stopped, the context closed and the session closed.
C10_ResourcesReleased ==
    pc \in {"done", "raised"} =>
        /\ p # "started"
        /\ js_context # "open"
        /\ requests_session # "open"

\* C11: if every fetch and every sleep returns, crawl_site returns; it returns
\* only with the frontier empty or the visited set at the page cap; and the
\* records in data_map at that moment are the ones returned. A fetch that
\* raises instead of returning (exc) is outside the claim's assumption.
C11_Terminates ==
    /\ <>(pc = "returned" \/ exc # "")
    /\ [](pc = "returned" =>
            queue = <<>> \/ Cardinality(visited) >= max_pages)
    /\ [][pc' = "returned" => data_map' = data_map]_vars

\* a run that returns because the frontier ran dry, below the page cap, with
\* two records written on the way
C11_Witness ==
    /\ pc = "returned" /\ queue = <<>>
    /\ Cardinality(visited) < max_pages
    /\ Cardinality(Keys) >= 2

\* the site boundary as get_domain's docstring draws it: scheme and netloc
SameOrigin(url) ==
    url.scheme = base_domain.scheme /\ url.netloc = base_domain.netloc

\* C12 as stated: is_internal_link holds of a link exactly when its scheme
\* and its netloc both equal the seed's, and a link that differs from the
\* seed in the scheme alone is never enqueued.
C12_InternalIsSameOrigin ==
    /\ \A u \in Keys : \A lk \in Links(u) :
           is_internal_link(base_domain, lk) <=> SameOrigin(lk)
    /\ \A i \in 1..Len(queue) : SameOrigin(queue[i][1])

\* a record whose elements hold no heading and no paragraph
NoText(u) ==
    \A i \in 1..Len(data_map[u].elements) :
        /\ ~IsHeading(data_map[u].elements[i].type)
        /\ data_map[u].elements[i].type # "Paragraph"

\* C13 as stated: the hash of a record is the empty string when the page
\* was never fetched (disallowed or failed) and when an ok page produced no
\* heading or paragraph text, and no such URL is reported in a duplicate
\* cluster.
C13_TextlessHashIsEmpty ==
    \A u \in Keys :
        data_map[u].status # "200" \/ NoText(u) =>
            /\ data_map[u].hash = ""
            /\ pc = "reported" => \A group \in dups : u \notin group

\* the heading and paragraph texts of a record, in the order of its elements
Text(u) ==
    LET kept == SelectSeq(data_map[u].elements, LAMBDA e :
                    IsHeading(e.type) \/ e.type = "Paragraph")
    IN [i \in 1..Len(kept) |-> kept[i].content]

\* C14: the clusters reported of a finished record set are exactly the sets
\* of two or more URLs that share one non-empty hash; two distinct ok URLs
\* with identical heading and paragraph text are in one cluster; no cluster
\* has one member; no URL is in two clusters; and the report leaves the
\* record set as it was.
C14_ClustersAreSharedHashes ==
    /\ [](pc = "reported" =>
            /\ \A group \in dups :
                /\ group \subseteq Keys /\ Cardinality(group) >= 2
                /\ \E u \in group :
                    /\ data_map[u].hash # ""
                    /\ group = {v \in Keys : data_map[v].hash = data_map[u].hash}
            /\ \A u, v \in Keys :
                u # v /\ data_map[u].hash # "" /\ data_map[u].hash = data_map[v].hash
                    => \E group \in dups : {u, v} \subseteq group
            /\ \A u, v \in Keys :
                (/\ u # v /\ Text(u) = Text(v)
                 /\ data_map[u].status = "200" /\ data_map[v].status = "200")
                    => \E group \in dups : {u, v} \subseteq group
            /\ \A g1, g2 \in dups : g1 # g2 => g1 \cap g2 = {})
    /\ [][pc' = "reported" => data_map' = data_map]_vars

\* a report of two clusters, one of them of pages that do have text
C14_Witness ==
    /\ pc = "reported" /\ Cardinality(dups) = 2
    /\ \E group \in dups : \E u \in group : Text(u) # <<>>

\* C15: of a finished record set, the pair (source, target) is reported as a
\* broken link exactly when source is an ok record, target is one of its
\* links, target has a record and that record's status is error; a link to
\* a URL without a record or to a disallowed record is never reported.
C15_BrokenLinksAreFailedTargets ==
    pc = "reported" =>
        /\ broken_links =
              {pair \in Keys \X Keys :
                  /\ data_map[pair[1]].status = "200"
                  /\ pair[2] \in Links(pair[1])
                  /\ data_map[pair[2]].status = "error"}
        /\ \A u \in Keys : \A lk \in Links(u) :
              lk \notin Keys \/ data_map[lk].status = "disallowed_by_robots"
                  => <<u, lk>> \notin broken_links

\* a report with a broken link, of a page that also links to a disallowed
\* record
C15_Witness ==
    /\ pc = "reported"
    /\ \E pair \in broken_links : \E lk \in Links(pair[1]) \cap Keys :
           data_map[lk].status = "disallowed_by_robots"

\* C16 as stated: when robots compliance is on and the robots.txt read
\* declares a crawl delay, every time.sleep of the crawl lasts the declared
\* delay, not the configured one.
C16_DeclaredDelayApplied ==
    respect_robots /\ rp.crawl_delay # {} =>
        \A i \in 1..Len(log) :
            log[i].ev = "sleep" => log[i].secs \in rp.crawl_delay

\* the depth of the first entry the history has enqueued for a URL
FirstEnqueued(u) ==
    LET at == {i \in 1..Len(log) : log[i].ev = "enqueue" /\ log[i].url = u}
    IN log[CHOOSE i \in at : \A j \in at : i <= j].depth

\* C17: the depth of a record is the depth of the first frontier entry ever
\* enqueued for its URL, and nothing that happens later (another path to the
\* URL, another entry for it in the frontier) changes the depth recorded.
C17_DepthFixedAtFirstEnqueue ==
    /\ [](\A u \in Keys : data_map[u].depth = FirstEnqueued(u))
    /\ [][\A u \in Keys :
              u \in DOMAIN data_map' /\ data_map'[u].depth = data_map[u].depth]_vars

\* a URL enqueued at depth 1 and again at depth 2 before it was dequeued,
\* recorded, with the second entry dequeued as well
C17_Witness ==
    \E u \in Keys \cap Logged("skip_visited") :
        /\ data_map[u].depth = 1
        /\ \E i \in 1..Len(log) : log[i] = Appended(u, 2)

\* what the loop has done, the enqueues left out
Acts == SelectSeq(log, LAMBDA e : e.ev # "enqueue")

\* C18: every fetch that returned, with markup or without, is followed by
\* the write of its record and then by exactly one sleep, before anything
\* else is dequeued; a sleep happens nowhere else, so none follows an entry
\* skipped as visited, skipped as over-depth or recorded as disallowed.
C18_OneSleepPerFetch ==
    LET acts == Acts
    IN \A i \in 1..Len(acts) :
        /\ acts[i].ev = "fetch" =>
              /\ i = Len(acts) => pc \in {"fetched", "raised"}
              /\ i < Len(acts) => acts[i + 1] = Event("write", acts[i].url)
              /\ i + 1 = Len(acts) => pc = "sleep"
              /\ i + 1 < Len(acts) =>
                    acts[i + 2].ev = "sleep" /\ acts[i + 2].url = acts[i].url
        /\ acts[i].ev = "sleep" =>
              /\ i > 2
              /\ acts[i - 2] = Event("fetch", acts[i].url)
              /\ acts[i - 1] = Event("write", acts[i].url)

\* a run that slept after a page with markup and after a failed fetch, and
\* went on without a sleep past a disallowed entry: three records, two sleeps
C18_Witness ==
    /\ pc = "returned" /\ Cardinality(Keys) = 3
    /\ \E i \in 1..Len(log) :
          log[i].ev = "sleep" /\ data_map[log[i].url].status = "200"
    /\ \E i \in 1..Len(log) :
          log[i].ev = "sleep" /\ data_map[log[i].url].status = "error"
    /\ \E u \in Keys : data_map[u].status = "disallowed_by_robots"

\* lines 366-368 of the variant: a link is appended only if it is internal,
\* not visited and not in the frontier already
RECURSIVE EnqueueOnce(_, _, _, _)
EnqueueOnce(q, lks, d, seen) ==
    IF lks = <<>> THEN q
    ELSE LET lk == Head(lks)
             queued == {q[i][1] : i \in 1..Len(q)}
         IN IF is_internal_link(base_domain, lk) /\ lk \notin seen
                  /\ lk \notin queued
            THEN EnqueueOnce(Append(q, <<lk, d + 1>>), Tail(lks), d, seen)
            ELSE EnqueueOnce(q, Tail(lks), d, seen)

\* the variant of crawl_site's loop with the dedup at enqueue time, run on
\* the same site: a fetch answers what it answered the crawl (the record in
\* data_map), and a URL the crawl never fetched is marked "unfetched"
RECURSIVE crawl_site_dedup(_, _, _)
crawl_site_dedup(q, seen, m) ==
    IF ~(q # <<>> /\ Cardinality(seen) < max_pages) THEN m
    ELSE LET url == Head(q)[1]
             d == Head(q)[2]
             now == seen \cup {url}
         IN IF url \in seen THEN crawl_site_dedup(Tail(q), seen, m)
            ELSE IF d > max_depth THEN crawl_site_dedup(Tail(q), now, m)
            ELSE IF ~should_crawl(url, rp, respect_robots)
            THEN crawl_site_dedup(Tail(q), now,
                     Store(m, url, BlankRecord("disallowed_by_robots", d)))
            ELSE IF url \notin Keys \/ data_map[url].status \notin {"200", "error"}
            THEN Store(m, url, BlankRecord("unfetched", d))
            ELSE IF data_map[url].status = "error"
            THEN crawl_site_dedup(Tail(q), now,
                     Store(m, url, BlankRecord("error", d)))
            ELSE crawl_site_dedup(
                     EnqueueOnce(Tail(q), data_map[url].links, d, now), now,
                     Store(m, url, [data_map[url] EXCEPT !.depth = d]))

\* C19: the variant that refuses to enqueue a URL already in the frontier
\* returns the record set crawl_site returns: the same keys, each with the
\* same status and the same depth.
C19_EnqueueDedupEquivalent ==
    pc = "returned" =>
        LET variant == crawl_site_dedup(<< <<start_url, 0>> >>, {}, EmptyMap)
        IN /\ DOMAIN variant = Keys
           /\ \A u \in Keys :
                 /\ variant[u].status = data_map[u].status
                 /\ variant[u].depth = data_map[u].depth

\* a crawl that returned after it had held two entries for one URL, at two
\* depths, and dropped the second at the dequeue
C19_Witness ==
    /\ pc = "returned"
    /\ \E u \in Logged("skip_visited") \cap Keys :
          \E i, j \in 1..Len(log) :
              log[i] = Appended(u, 1) /\ log[j] = Appended(u, 2)
    /\ Cardinality(Keys) >= 3

\* the blocks of a document in the order of its tags: every heading,
\* paragraph and list item that has text, typed as parse_html_static types it
InDocumentOrder(body) ==
    LET blocks == SelectSeq(body, LAMBDA t :
                      t.tag \in {"h", "p", "li"} /\ strip(t.text) # "")
        TypeOf(t) == CASE t.tag = "h" -> HeadingType(t.level)
                       [] t.tag = "p" -> "Paragraph"
                       [] OTHER -> "List item"
    IN [i \in 1..Len(blocks) |-> Element(TypeOf(blocks[i]), strip(blocks[i].text))]

\* C20 as stated: the elements parse_html_static extracts from a page are in
\* the order of the page's markup; an h2 that precedes an h1 in the markup
\* precedes it in the elements.
C20_ElementsInDocumentOrder ==
    pc = "sleep" /\ Truthy(html) =>
        data_map[current_url].elements = InDocumentOrder(html.body)

\* C21: in every state of crawl_site the depths of the frontier's entries do
\* not decrease from front to back, each is the depth of the entry dequeued
\* last or one more, and the entries are dequeued in non-decreasing depth.
C21_FrontierMonotone ==
    /\ [](/\ \A i, j \in 1..Len(queue) : i < j => queue[i][2] <= queue[j][2]
          /\ \A i \in 1..Len(queue) : queue[i][2] \in {depth, depth + 1})
    /\ [][depth' >= depth]_vars

\* a frontier that holds entries of the depth dequeued last and of the next
\* depth, behind a dequeue at depth 1
C21_Witness ==
    /\ pc = "loop" /\ depth = 1
    /\ \E i, j \in 1..Len(queue) : queue[i][2] = 1 /\ queue[j][2] = 2

\* the variant of crawl_site's loop that tests the depth before it adds the
\* URL to visited, run on the same site: a fetch answers what it answered
\* the crawl, and a URL the crawl never fetched is marked "unfetched"
RECURSIVE crawl_site_depth_first(_, _, _)
crawl_site_depth_first(q, seen, m) ==
    IF ~(q # <<>> /\ Cardinality(seen) < max_pages) THEN m
    ELSE LET url == Head(q)[1]
             d == Head(q)[2]
             now == seen \cup {url}
         IN IF url \in seen THEN crawl_site_depth_first(Tail(q), seen, m)
            ELSE IF d > max_depth THEN crawl_site_depth_first(Tail(q), seen, m)
            ELSE IF ~should_crawl(url, rp, respect_robots)
            THEN crawl_site_depth_first(Tail(q), now,
                     Store(m, url, BlankRecord("disallowed_by_robots", d)))
            ELSE IF url \notin Keys \/ data_map[url].status \notin {"200", "error"}
            THEN Store(m, url, BlankRecord("unfetched", d))
            ELSE IF data_map[url].status = "error"
            THEN crawl_site_depth_first(Tail(q), now,
                     Store(m, url, BlankRecord("error", d)))
            ELSE crawl_site_depth_first(
                     Enqueue(Tail(q), data_map[url].links, d, now), now,
                     Store(m, url, [data_map[url] EXCEPT !.depth = d]))

\* C22: once an entry deeper than max_depth has been dequeued, every later
\* dequeue is over-depth too and no record is written any more; and the
\* record set returned is the one returned by the variant that leaves
\* over-depth URLs out of visited (same keys, statuses and depths).
C22_OverDepthDisplacesNothing ==
    /\ [][depth > max_depth =>
              depth' > max_depth /\ data_map' = data_map]_vars
    /\ [](pc = "returned" =>
            LET variant ==
                    crawl_site_depth_first(<< <<start_url, 0>> >>, {}, EmptyMap)
            IN /\ DOMAIN variant = Keys
               /\ \A u \in Keys :
                     /\ variant[u].status = data_map[u].status
                     /\ variant[u].depth = data_map[u].depth)

\* a run ended by the page cap with the frontier not empty, in which an
\* over-depth URL took a visited slot beside two records
C22_Witness ==
    /\ pc = "returned" /\ queue # <<>>
    /\ Cardinality(visited) = max_pages
    /\ Logged("over_depth") # {} /\ Cardinality(Keys) >= 2

\* C23: the record of a fetched URL has status 200 exactly when the fetch
\* returned a non-empty markup string; after a fetch that returned the empty
\* string the record written has status error, no links and an empty hash,
\* and nothing is enqueued; and every link of an ok record to a record with
\* status error is reported as a broken link.
C23_EmptyMarkupIsError ==
    /\ [](pc = "sleep" =>
            (data_map[current_url].status = "200" <=> html.kind = "markup"))
    /\ [][pc = "fetched" /\ html = EmptyMarkup =>
              /\ DOMAIN data_map' = Keys \cup {current_url}
              /\ data_map'[current_url].status = "error"
              /\ data_map'[current_url].links = <<>>
              /\ data_map'[current_url].hash = ""
              /\ queue' = queue]_vars
    /\ [](pc = "reported" =>
            \A v \in Keys : \A lk \in Links(v) \cap Keys :
                data_map[v].status = "200" /\ data_map[lk].status = "error"
                    => <<v, lk>> \in broken_links)

\* a report after a crawl whose last fetch returned the empty string, for a
\* URL that an ok page links to: the pair is among the broken links
C23_Witness ==
    /\ pc = "reported" /\ html = EmptyMarkup
    /\ data_map[current_url].status = "error"
    /\ \E v \in Keys :
          /\ data_map[v].status = "200" /\ current_url \in Links(v)
          /\ <<v, current_url>> \in broken_links

=============================================================================
